---- MODULE Spec2Model ----
(***************************************************************************)
(* Model of app/network_coding_for_transport/multihop_topo.py: the run of  *)
(* run_multihop_nc_test (IPv6 toggle, chain topology, OpenFlow rules,      *)
(* coder sweep, cleanup) as a sequential program with one action per       *)
(* backend call, each of which may succeed or raise.                       *)
(***************************************************************************)
EXTENDS Integers, Sequences, FiniteSets, TLC

VARIABLES
    harness,        \* which entry point drives the code: "run", "flows", "coders"
    host_num,       \* HOST_NUM / host_num argument
    ALL_FOWARD,     \* the --all_forward flag (global)
    coder_log_conf, \* TRUE iff the log of every coder kind is requested
    pc,             \* position in the code
    exc,            \* the exception in flight or that ended the run ("none")
    failures,       \* number of backend calls that have raised so far
    ipv6,           \* sysctl net.ipv6.conf.{all,default}.disable_ipv6
    net,            \* the Containernet handle and what it created
    tables,         \* flow table of each switch: set of rules
    running,        \* containers the VNFManager currently runs
    loc,            \* local variables of the functions
    hist            \* history: which calls were issued

vars == <<harness, host_num, ALL_FOWARD, coder_log_conf, pc, exc, failures,
          ipv6, net, tables, running, loc, hist>>

inputs == <<harness, host_num, ALL_FOWARD, coder_log_conf>>

(***************************************************************************)
(* Bounds of the model and constants of the program.                       *)
(***************************************************************************)
MaxHostNum == 7

MaxFailures == 2

MinHosts == 5

RecStIdx == 2

HostNums == (MinHosts - 2)..MaxHostNum

Switches == 1..MaxHostNum

NoRules == [s \in Switches |-> {}]

(***************************************************************************)
(* Python list indexing: index k of a list, negative k counts from the end.*)
(***************************************************************************)
PyInRange(seq, k) == (-Len(seq) <= k) /\ (k < Len(seq))

PyGet(seq, k) == seq[(IF k < 0 THEN k + Len(seq) ELSE k) + 1]

(***************************************************************************)
(* Interface names "s<a>-h<b>" and "s<a>-s<b>" as tuples.                  *)
(***************************************************************************)
IfceName(a, kind, b) == <<a, kind, b>>

PortsOf(n, sw) == {x \in n.ifces : x.name[1] = sw}

HasIfce(n, name) == \E x \in n.ifces : x.name = name

\* get_ofport: the OpenFlow port of a switch interface
get_ofport(n, name) == (CHOOSE x \in n.ifces : x.name = name).ofport

\* the interface a switch gets on a new link, numbered after the
\* interfaces the switch already has
NewIfce(n, sw, kind, b) ==
    [name |-> IfceName(sw, kind, b), ofport |-> Cardinality(PortsOf(n, sw)) + 1]

\* addLinkNamedIfce(switch, node): one more link; switch gets s<sw>-<kind><b>
AddLinkNamedIfce(n, sw, kind, b) ==
    [n EXCEPT !.links = Append(@, <<sw, kind, b>>),
              !.ifces = @ \cup {NewIfce(n, sw, kind, b)}]

\* on a switch-to-switch link the other switch gets an interface as well
AddSwitchLink(n, sw, last) ==
    [AddLinkNamedIfce(n, sw, "s", last) EXCEPT
       !.ifces = @ \cup {NewIfce(n, last, "s", sw)}]

AddDockerHost(n, h) == [n EXCEPT !.hosts = @ \cup {h}]

AddSwitch(n, s) == [n EXCEPT !.switches = @ \cup {s}]

\* net.stop(): the handle is stopped; it keeps the lists of what it created
NetStop(n) == [n EXCEPT !.started = FALSE, !.stopped = TRUE]

NetStart(n) == [n EXCEPT !.started = TRUE]

EmptyNet ==
    [controllers |-> {}, hosts |-> {}, switches |-> {}, links |-> <<>>,
     ifces |-> {}, started |-> FALSE, stopped |-> FALSE]

(***************************************************************************)
(* History bookkeeping.                                                    *)
(***************************************************************************)
EmptyHist ==
    [calls |-> {}, afterFail |-> {}, topoFailed |-> FALSE,
     netStartCalls |-> 0, netStopCalls |-> 0, startAfterStop |-> FALSE,
     variants |-> <<>>, launched |-> {}, everLaunched |-> {},
     added |-> {}, removed |-> {},
     installed |-> NoRules, flowCalls |-> 0, after1 |-> NoRules,
     ipv6Disabled |-> FALSE, enableCalls |-> 0, caught |-> 0,
     mgrStopCalls |-> 0, measured |-> 0, logged |-> 0,
     netUp |-> FALSE, flowFailed |-> FALSE, clash |-> FALSE,
     addOrder |-> <<>>, removeOrder |-> <<>>, stoppedEarly |-> {}]

Called(h, op) ==
    [h EXCEPT !.calls = @ \cup {op},
              !.afterFail = IF h.topoFailed THEN @ \cup {op} ELSE @]

EmptyLoc ==
    [topo_hosts |-> <<>>, i |-> 0, last_sw |-> 0,
     hosts |-> [none |-> TRUE, list |-> <<>>],
     relay_num |-> 0, rec_st_idx |-> 0, k |-> 0, action_map |-> <<>>,
     recoders |-> <<>>, decoder |-> <<>>, encoder |-> <<>>,
     coders |-> [encoder |-> <<>>, decoder |-> <<>>, recoders |-> <<>>],
     in_port |-> 0, out_port |-> 0]

(***************************************************************************)
(* Exceptions.  Inside the try of create_topology the handler is its       *)
(* except clause, inside the try of run_multihop_nc_test it is the except  *)
(* clause there, and anywhere else the exception leaves the run.           *)
(***************************************************************************)
CanFail == failures < MaxFailures

Propagate(e) == pc' = "done" /\ exc' = e

RunExcept(e) ==
    IF harness = "run" THEN pc' = "run_except" /\ exc' = e ELSE Propagate(e)

(***************************************************************************)
(* config_ipv6(action): two sysctl commands.                               *)
(***************************************************************************)
Ipv6Value(action) == IF action = "disable" THEN 1 ELSE 0

ConfigIpv6All(action, next) ==
    /\ hist' = [Called(hist, "sysctl") EXCEPT
                  !.enableCalls = IF action = "enable" THEN @ + 1 ELSE @]
    /\ \/ /\ ipv6' = [ipv6 EXCEPT !.all = Ipv6Value(action)]
          /\ pc' = next
          /\ UNCHANGED <<exc, failures>>
       \/ /\ CanFail
          /\ failures' = failures + 1
          /\ Propagate("BackendError")
          /\ UNCHANGED ipv6
    /\ UNCHANGED <<inputs, net, tables, running, loc>>

ConfigIpv6Default(action, next) ==
    /\ \/ /\ ipv6' = [ipv6 EXCEPT !.default = Ipv6Value(action)]
          /\ pc' = next
          /\ hist' = [Called(hist, "sysctl") EXCEPT
                        !.ipv6Disabled = IF action = "disable" THEN TRUE ELSE @]
          /\ UNCHANGED <<exc, failures>>
       \/ /\ CanFail
          /\ failures' = failures + 1
          /\ Propagate("BackendError")
          /\ hist' = Called(hist, "sysctl")
          /\ UNCHANGED ipv6
    /\ UNCHANGED <<inputs, net, tables, running, loc>>

DisableIpv6All ==
    /\ pc = "ipv6_disable_all"
    /\ ConfigIpv6All("disable", "ipv6_disable_default")

DisableIpv6Default ==
    /\ pc = "ipv6_disable_default"
    /\ ConfigIpv6Default("disable", "construct")

\* net = Containernet(...); mgr = VNFManager(net)
Construct ==
    /\ pc = "construct"
    /\ net' = EmptyNet
    /\ pc' = "topo_check"
    /\ UNCHANGED <<inputs, exc, failures, ipv6, tables, running, loc, hist>>

(***************************************************************************)
(* create_topology(net, host_num)                                          *)
(***************************************************************************)
TopoExcept(e) == pc' = "topo_except" /\ exc' = e

\* what a failed backend call of the try block leaves behind
TopoFail ==
    /\ CanFail
    /\ failures' = failures + 1
    /\ TopoExcept("BackendError")
    /\ UNCHANGED <<net, tables, loc>>

\* the value create_topology hands to run_multihop_nc_test, which then
\* computes relay_num and rec_st_idx
ReturnHosts(l, value) ==
    [l EXCEPT !.hosts = value, !.relay_num = host_num - 2 - 2,
              !.rec_st_idx = RecStIdx]

CreateTopologyCheck ==
    /\ pc = "topo_check"
    /\ IF host_num < MinHosts
         THEN Propagate("RuntimeError") /\ UNCHANGED loc
         ELSE /\ pc' = "add_controller"
              /\ loc' = [loc EXCEPT !.topo_hosts = <<>>]
              /\ UNCHANGED exc
    /\ UNCHANGED <<inputs, failures, ipv6, net, tables, running, hist>>

AddController ==
    /\ pc = "add_controller"
    /\ \/ /\ net' = [net EXCEPT !.controllers = @ \cup {"c0"}]
          /\ loc' = [loc EXCEPT !.last_sw = 0, !.i = 0]
          /\ pc' = "add_host"
          /\ hist' = Called(hist, "addController")
          /\ UNCHANGED <<exc, failures, tables>>
       \/ /\ TopoFail
          /\ hist' = [Called(hist, "addController") EXCEPT !.topoFailed = TRUE]
    /\ UNCHANGED <<inputs, ipv6, running>>

AddHostStep ==
    /\ pc = "add_host"
    /\ \/ /\ net' = AddDockerHost(net, loc.i + 1)
          /\ loc' = [loc EXCEPT !.topo_hosts = Append(@, loc.i + 1)]
          /\ pc' = "add_switch"
          /\ hist' = Called(hist, "addDockerHost")
          /\ UNCHANGED <<exc, failures, tables>>
       \/ /\ TopoFail
          /\ hist' = [Called(hist, "addDockerHost") EXCEPT !.topoFailed = TRUE]
    /\ UNCHANGED <<inputs, ipv6, running>>

AddSwitchStep ==
    /\ pc = "add_switch"
    /\ \/ /\ net' = AddSwitch(net, loc.i + 1)
          /\ tables' = [tables EXCEPT ![loc.i + 1] = {}]
          /\ pc' = "add_host_link"
          /\ hist' = Called(hist, "addSwitch")
          /\ UNCHANGED <<exc, failures, loc>>
       \/ /\ TopoFail
          /\ hist' = [Called(hist, "addSwitch") EXCEPT !.topoFailed = TRUE]
    /\ UNCHANGED <<inputs, ipv6, running>>

\* NextHop without "last_sw = switch": no switch ever has a predecessor
NextHop_NoLastSw(l) ==
    IF l.i + 1 < host_num
      THEN /\ pc' = "add_host"
           /\ loc' = [l EXCEPT !.i = l.i + 1]
      ELSE /\ pc' = "net_start"
           /\ loc' = ReturnHosts(l, [none |-> FALSE, list |-> l.topo_hosts])

\* end of one iteration of the for loop: last_sw = switch, then the next host
\* or "return hosts"
NextHop(l) ==
    IF l.i + 1 < host_num
      THEN /\ pc' = "add_host"
           /\ loc' = [l EXCEPT !.last_sw = l.i + 1, !.i = l.i + 1]
      ELSE /\ pc' = "net_start"
           /\ loc' = ReturnHosts([l EXCEPT !.last_sw = l.i + 1],
                                 [none |-> FALSE, list |-> l.topo_hosts])

AddHostLinkStep ==
    /\ pc = "add_host_link"
    /\ \/ /\ net' = AddLinkNamedIfce(net, loc.i + 1, "h", loc.i + 1)
          /\ IF loc.last_sw # 0
               THEN pc' = "add_switch_link" /\ UNCHANGED loc
               ELSE NextHop(loc)
          /\ hist' = Called(hist, "addLinkNamedIfce")
          /\ UNCHANGED <<exc, failures, tables>>
       \/ /\ TopoFail
          /\ hist' = [Called(hist, "addLinkNamedIfce") EXCEPT !.topoFailed = TRUE]
    /\ UNCHANGED <<inputs, ipv6, running>>

AddSwitchLinkStep ==
    /\ pc = "add_switch_link"
    /\ \/ /\ net' = AddSwitchLink(net, loc.i + 1, loc.last_sw)
          /\ NextHop(loc)
          /\ hist' = Called(hist, "addLinkNamedIfce")
          /\ UNCHANGED <<exc, failures, tables>>
       \/ /\ TopoFail
          /\ hist' = [Called(hist, "addLinkNamedIfce") EXCEPT !.topoFailed = TRUE]
    /\ UNCHANGED <<inputs, ipv6, running>>

\* except Exception as e: error(e); net.stop()  -- and the function ends,
\* returning None
CreateTopologyExcept ==
    /\ pc = "topo_except"
    /\ \/ /\ net' = NetStop(net)
          /\ loc' = ReturnHosts(loc, [none |-> TRUE, list |-> <<>>])
          /\ pc' = "net_start"
          /\ exc' = "none"
          /\ hist' = [Called(hist, "net.stop") EXCEPT !.netStopCalls = @ + 1]
          /\ UNCHANGED failures
       \/ /\ CanFail
          /\ failures' = failures + 1
          /\ Propagate("BackendError")
          /\ hist' = [Called(hist, "net.stop") EXCEPT !.netStopCalls = @ + 1]
          /\ UNCHANGED <<net, loc>>
    /\ UNCHANGED <<inputs, ipv6, tables, running>>

(***************************************************************************)
(* run_multihop_nc_test: the try block.                                    *)
(***************************************************************************)
\* a backend call of the try block raises
TryFail ==
    /\ CanFail
    /\ failures' = failures + 1
    /\ RunExcept("BackendError")
    /\ UNCHANGED <<net, tables, running, loc>>

\* entry of "for i in range(switch_num - 1)" in add_ovs_flows and what follows
\* the loop: disable_cksum_offload in the run
FlowsIter(l, i) ==
    IF i < host_num - 1
      THEN pc' = "del_flows" /\ loc' = [l EXCEPT !.i = i]
      ELSE /\ pc' = IF harness = "run" THEN "cksum" ELSE "flows_harness"
           /\ loc' = [l EXCEPT !.i = 0]

NetStartStep ==
    /\ pc = "net_start"
    /\ \/ /\ net' = NetStart(net)
          /\ FlowsIter(loc, 0)
          /\ hist' = [Called(hist, "net.start") EXCEPT
                        !.netStartCalls = @ + 1,
                        !.startAfterStop = @ \/ net.stopped,
                        !.netUp = TRUE,
                        !.installed = NoRules]
          /\ UNCHANGED <<exc, failures, tables, running>>
       \/ /\ TryFail
          /\ hist' = [Called(hist, "net.start") EXCEPT
                        !.netStartCalls = @ + 1,
                        !.startAfterStop = @ \/ net.stopped]
    /\ UNCHANGED <<inputs, ipv6>>

(***************************************************************************)
(* add_ovs_flows(net, switch_num), called with switch_num = host_num.      *)
(***************************************************************************)
\* the run continues although a command of add_ovs_flows has raised
FlowFail_Swallow ==
    /\ pc' = "cksum"
    /\ exc' = exc
    /\ loc' = [loc EXCEPT !.i = 0]
    /\ UNCHANGED <<net, tables, running>>

FlowFailed(h) == [h EXCEPT !.flowFailed = TRUE]

\* a shell command run by check_output raises CalledProcessError
FlowFail ==
    /\ RunExcept("BackendError")
    /\ UNCHANGED <<net, tables, running, loc>>

\* del-flows that leaves the table as it is
DelFlowsOp_Keep(t, sw) == t

\* ovs-ofctl del-flows s<i+1>
DelFlowsOp(t, sw) == [t EXCEPT ![sw] = {}]

\* add-flow that writes the two ports the wrong way round
AddFlowOp_Swapped(t, sw, in_port, out_port) ==
    [t EXCEPT ![sw] = {r \in @ : r.in_port # out_port}
                        \cup {[in_port |-> out_port, out_port |-> in_port]}]

\* ovs-ofctl add-flow s<sw> "udp,in_port=..,actions=output=..": a rule with
\* the same match replaces the old one
AddFlowOp(t, sw, in_port, out_port) ==
    [t EXCEPT ![sw] = {r \in @ : r.in_port # in_port}
                        \cup {[in_port |-> in_port, out_port |-> out_port]}]

DelFlows ==
    /\ pc = "del_flows"
    /\ \/ /\ (loc.i + 1) \in net.switches
          /\ tables' = DelFlowsOp(tables, loc.i + 1)
          /\ pc' = "get_in1"
          /\ UNCHANGED <<exc, failures, net, running, loc>>
          /\ hist' = Called(hist, "del-flows")
       \/ /\ (loc.i + 1) \notin net.switches
          /\ FlowFail
          /\ hist' = FlowFailed(Called(hist, "del-flows"))
          /\ UNCHANGED failures
       \/ /\ CanFail
          /\ failures' = failures + 1
          /\ FlowFail
          /\ hist' = FlowFailed(Called(hist, "del-flows"))
    /\ UNCHANGED <<inputs, ipv6>>

\* FlowIfce whose second rule outputs to the next switch, not to the host
FlowIfce_Out2Next(at, i) ==
    CASE at = "get_in1"  -> IfceName(i + 1, "h", i + 1)
      [] at = "get_out1" -> IfceName(i + 1, "s", i + 2)
      [] at = "get_in2"  -> IfceName(i + 1, "s", i)
      [] at = "get_out2" -> IfceName(i + 1, "s", i + 2)

\* the interface each of the four get_ofport calls of one iteration asks for
FlowIfce(at, i) ==
    CASE at = "get_in1"  -> IfceName(i + 1, "h", i + 1)
      [] at = "get_out1" -> IfceName(i + 1, "s", i + 2)
      [] at = "get_in2"  -> IfceName(i + 1, "s", i)
      [] at = "get_out2" -> IfceName(i + 1, "h", i + 1)

AfterGet(at) ==
    CASE at = "get_in1"  -> "get_out1"
      [] at = "get_out1" -> "add_flow1"
      [] at = "get_in2"  -> "get_out2"
      [] at = "get_out2" -> "add_flow2"

GetOfport ==
    /\ pc \in {"get_in1", "get_out1", "get_in2", "get_out2"}
    /\ \/ /\ HasIfce(net, FlowIfce(pc, loc.i))
          /\ loc' = IF pc \in {"get_in1", "get_in2"}
                      THEN [loc EXCEPT !.in_port = get_ofport(net, FlowIfce(pc, loc.i))]
                      ELSE [loc EXCEPT !.out_port = get_ofport(net, FlowIfce(pc, loc.i))]
          /\ pc' = AfterGet(pc)
          /\ UNCHANGED <<exc, failures, net, tables, running>>
          /\ hist' = Called(hist, "get_ofport")
       \/ /\ ~HasIfce(net, FlowIfce(pc, loc.i))
          /\ FlowFail
          /\ hist' = FlowFailed(Called(hist, "get_ofport"))
          /\ UNCHANGED failures
       \/ /\ CanFail
          /\ failures' = failures + 1
          /\ FlowFail
          /\ hist' = FlowFailed(Called(hist, "get_ofport"))
    /\ UNCHANGED <<inputs, ipv6>>

AddFlow ==
    /\ pc \in {"add_flow1", "add_flow2"}
    /\ \/ /\ (loc.i + 1) \in net.switches
          /\ tables' = AddFlowOp(tables, loc.i + 1, loc.in_port, loc.out_port)
          /\ hist' = [Called(hist, "add-flow") EXCEPT
                        !.installed[loc.i + 1] =
                            @ \cup {[in_port |-> loc.in_port,
                                     out_port |-> loc.out_port]}]
          /\ IF pc = "add_flow1" /\ loc.i # 0
               THEN pc' = "get_in2" /\ UNCHANGED loc
               ELSE FlowsIter(loc, loc.i + 1)
          /\ UNCHANGED <<exc, failures, net, running>>
       \/ /\ (loc.i + 1) \notin net.switches
          /\ FlowFail
          /\ hist' = FlowFailed(Called(hist, "add-flow"))
          /\ UNCHANGED failures
       \/ /\ CanFail
          /\ failures' = failures + 1
          /\ FlowFail
          /\ hist' = FlowFailed(Called(hist, "add-flow"))
    /\ UNCHANGED <<inputs, ipv6>>

(***************************************************************************)
(* disable_cksum_offload(switch_num) and the head of the sweep loop.       *)
(***************************************************************************)
\* "for i in range(relay_num)" of run_multihop_nc_test: the next variant, or
\* the end of the try block
SweepIter(l, k) ==
    IF k < l.relay_num
      THEN pc' = "sweep" /\ loc' = [l EXCEPT !.k = k]
      ELSE pc' = "finally_stop" /\ loc' = l

DisableCksumOffload ==
    /\ pc = "cksum"
    /\ \/ /\ HasIfce(net, IfceName(loc.i + 1, "h", loc.i + 1))
          /\ IF loc.i + 1 < host_num
               THEN pc' = "cksum" /\ loc' = [loc EXCEPT !.i = @ + 1]
               ELSE SweepIter(loc, 0)
          /\ UNCHANGED <<exc, failures, net, tables, running>>
       \/ /\ ~HasIfce(net, IfceName(loc.i + 1, "h", loc.i + 1))
          /\ FlowFail
          /\ UNCHANGED failures
       \/ /\ CanFail
          /\ failures' = failures + 1
          /\ FlowFail
    /\ hist' = Called(hist, "ethtool")
    /\ UNCHANGED <<inputs, ipv6>>

(***************************************************************************)
(* The sweep of run_multihop_nc_test and deploy_coders.                    *)
(***************************************************************************)
Forwards(n) == [j \in 1..n |-> "forward"]

\* ActionMap that always marks the first relay as the recoder
ActionMap_First(relay_num, k, all_forward) ==
    IF all_forward
      THEN Forwards(relay_num)
      ELSE [Forwards(relay_num) EXCEPT ![1] = "recode"]

\* action_map = ["forward"] * relay_num; if not ALL_FOWARD: action_map[i] = "recode"
ActionMap(relay_num, k, all_forward) ==
    IF all_forward
      THEN Forwards(relay_num)
      ELSE [Forwards(relay_num) EXCEPT ![k + 1] = "recode"]

\* RelayIter that goes on to the encoder once the relays are added
RelayIter_EncoderFirst(l, i) ==
    IF i < l.rec_st_idx + l.relay_num
      THEN pc' = "deploy_relay" /\ loc' = [l EXCEPT !.i = i]
      ELSE pc' = "deploy_encoder" /\ loc' = l

\* "for i in range(rec_st_idx, rec_st_idx + relay_num)" of deploy_coders
RelayIter(l, i) ==
    IF i < l.rec_st_idx + l.relay_num
      THEN pc' = "deploy_relay" /\ loc' = [l EXCEPT !.i = i]
      ELSE pc' = "deploy_decoder" /\ loc' = l

\* entry of deploy_coders: recoders = list(), then the info line slices
\* hosts, which raises TypeError when hosts is None
EnterDeployCoders(l) ==
    IF l.hosts.none
      THEN RunExcept("TypeError") /\ loc' = l
      ELSE RelayIter([l EXCEPT !.recoders = <<>>], l.rec_st_idx) /\ UNCHANGED exc

NewVariant(h, action_map) ==
    [Called(h, "deploy_coders") EXCEPT
       !.variants = Append(@, action_map),
       !.launched = {}, !.added = {}, !.removed = {},
       !.addOrder = <<>>, !.removeOrder = <<>>]

\* one iteration of the sweep: the action map is built and passed to
\* deploy_coders
SweepVariant ==
    /\ pc = "sweep"
    /\ hist' = NewVariant(hist, ActionMap(loc.relay_num, loc.k, ALL_FOWARD))
    /\ EnterDeployCoders([loc EXCEPT
                            !.action_map = ActionMap(loc.relay_num, loc.k, ALL_FOWARD)])
    /\ UNCHANGED <<inputs, failures, ipv6, net, tables, running>>

\* mgr.addContainer(name, host, ...)
Container(name, host, role, ifce) ==
    [name |-> name, host |-> host, role |-> role, ifce |-> ifce]

AddContainer(r, c) == r \cup {c}

\* mgr.removeContainer(name)
RemoveContainer(r, name) == {c \in r : c.name # name}

Launched(h, c) ==
    [h EXCEPT !.added = @ \cup {c.name},
              !.addOrder = Append(@, c.name),
              !.clash = @ \/ (\E d \in running : d.name = c.name \/ d.host = c.host),
              !.launched = @ \cup {[host |-> c.host, role |-> c.role]},
              !.everLaunched = @ \cup {[host |-> c.host, role |-> c.role]}]

Recoder(l) ==
    Container(<<"recoder_on_h", l.i + 1>>, PyGet(l.hosts.list, l.i),
              PyGet(l.action_map, l.i - 2), l.i + 1)

DeployRelay ==
    /\ pc = "deploy_relay"
    /\ \/ /\ PyInRange(loc.action_map, loc.i - 2)
          /\ PyInRange(loc.hosts.list, loc.i)
          /\ \/ /\ running' = AddContainer(running, Recoder(loc))
                /\ RelayIter([loc EXCEPT !.recoders = Append(@, Recoder(loc))],
                             loc.i + 1)
                /\ hist' = Launched(Called(hist, "addContainer"), Recoder(loc))
                /\ UNCHANGED <<exc, failures>>
             \/ /\ CanFail
                /\ failures' = failures + 1
                /\ RunExcept("BackendError")
                /\ hist' = Called(hist, "addContainer")
                /\ UNCHANGED <<running, loc>>
       \/ /\ ~(PyInRange(loc.action_map, loc.i - 2) /\ PyInRange(loc.hosts.list, loc.i))
          /\ RunExcept("IndexError")
          /\ UNCHANGED <<failures, running, loc, hist>>
    /\ UNCHANGED <<inputs, ipv6, net, tables>>

\* Decoder placed on the last host
Decoder_LastHost(l) ==
    Container(<<"decoder", 0>>, PyGet(l.hosts.list, -1), "decoder",
              Len(l.hosts.list))

Decoder(l) ==
    Container(<<"decoder", 0>>, PyGet(l.hosts.list, -2), "decoder",
              Len(l.hosts.list) - 1)

DeployDecoder ==
    /\ pc = "deploy_decoder"
    /\ \/ /\ running' = AddContainer(running, Decoder(loc))
          /\ loc' = [loc EXCEPT !.decoder = Decoder(loc)]
          /\ pc' = "deploy_encoder"
          /\ hist' = Launched(Called(hist, "addContainer"), Decoder(loc))
          /\ UNCHANGED <<exc, failures>>
       \/ /\ CanFail
          /\ failures' = failures + 1
          /\ RunExcept("BackendError")
          /\ hist' = Called(hist, "addContainer")
          /\ UNCHANGED <<running, loc>>
    /\ UNCHANGED <<inputs, ipv6, net, tables>>

Encoder(l) == Container(<<"encoder", 0>>, PyGet(l.hosts.list, 1), "encoder", 2)

\* the last addContainer; deploy_coders returns (encoder, decoder, recoders)
DeployEncoder ==
    /\ pc = "deploy_encoder"
    /\ \/ /\ running' = AddContainer(running, Encoder(loc))
          /\ loc' = [loc EXCEPT !.encoder = Encoder(loc),
                                !.coders = [encoder |-> Encoder(loc),
                                            decoder |-> loc.decoder,
                                            recoders |-> loc.recoders]]
          /\ pc' = IF harness = "run" THEN "iperf_server" ELSE "remove_encoder"
          /\ hist' = Launched(Called(hist, "addContainer"), Encoder(loc))
          /\ UNCHANGED <<exc, failures>>
       \/ /\ CanFail
          /\ failures' = failures + 1
          /\ RunExcept("BackendError")
          /\ hist' = Called(hist, "addContainer")
          /\ UNCHANGED <<running, loc>>
    /\ UNCHANGED <<inputs, ipv6, net, tables>>

(***************************************************************************)
(* run_iperf_test(hosts[0], hosts[-1], "udp", 30) and print_coders_log.    *)
(***************************************************************************)
\* AfterIperf that goes from the server to the report without the client
AfterIperf_SkipClient(at) ==
    CASE at = "iperf_server" -> "iperf_report"
      [] at = "iperf_client" -> "iperf_report"
      [] at = "iperf_report" -> IF coder_log_conf THEN "log_recoders"
                                                  ELSE "remove_encoder"

AfterIperf(at) ==
    CASE at = "iperf_server" -> "iperf_client"
      [] at = "iperf_client" -> "iperf_report"
      [] at = "iperf_report" -> IF coder_log_conf THEN "log_recoders"
                                                  ELSE "remove_encoder"

RunIperfTest ==
    /\ pc \in {"iperf_server", "iperf_client", "iperf_report"}
    /\ \/ /\ pc' = AfterIperf(pc)
          /\ hist' = [Called(hist, pc) EXCEPT
                        !.measured = IF pc = "iperf_client" THEN @ + 1 ELSE @]
          /\ UNCHANGED <<exc, failures>>
       \/ /\ CanFail
          /\ failures' = failures + 1
          /\ RunExcept("BackendError")
          /\ hist' = Called(hist, pc)
    /\ UNCHANGED <<inputs, ipv6, net, tables, running, loc>>

AfterLog(at) ==
    CASE at = "log_recoders" -> "log_decoder"
      [] at = "log_decoder"  -> "log_encoder"
      [] at = "log_encoder"  -> "remove_encoder"

PrintCodersLog ==
    /\ pc \in {"log_recoders", "log_decoder", "log_encoder"}
    /\ \/ /\ pc' = AfterLog(pc)
          /\ hist' = [Called(hist, "logs") EXCEPT
                        !.logged = IF pc = "log_encoder" THEN @ + 1 ELSE @]
          /\ UNCHANGED <<exc, failures>>
       \/ /\ CanFail
          /\ failures' = failures + 1
          /\ RunExcept("BackendError")
          /\ hist' = Called(hist, "logs")
    /\ UNCHANGED <<inputs, ipv6, net, tables, running, loc>>

(***************************************************************************)
(* remove_coders(mgr, coders)                                              *)
(***************************************************************************)
\* AfterRemove without the "if ALL_FOWARD: break"
AfterRemove_NoBreak(l) ==
    IF harness = "run"
      THEN SweepIter(l, l.k + 1)
      ELSE pc' = "done" /\ loc' = l

\* after the last removeContainer: "if ALL_FOWARD: break", else the next variant
AfterRemove(l) ==
    IF harness = "run"
      THEN IF ALL_FOWARD
             THEN pc' = "finally_stop" /\ loc' = l
             ELSE SweepIter(l, l.k + 1)
      ELSE pc' = "done" /\ loc' = l

\* RemoveIter that stops one recoder early
RemoveIter_SkipLast(l, j) ==
    IF j < Len(l.coders.recoders) - 1
      THEN pc' = "remove_recoder" /\ loc' = [l EXCEPT !.i = j]
      ELSE AfterRemove(l)

\* "for r in recoders"
RemoveIter(l, j) ==
    IF j < Len(l.coders.recoders)
      THEN pc' = "remove_recoder" /\ loc' = [l EXCEPT !.i = j]
      ELSE AfterRemove(l)

RemoveFail ==
    /\ CanFail
    /\ failures' = failures + 1
    /\ RunExcept("BackendError")
    /\ hist' = Called(hist, "removeContainer")
    /\ UNCHANGED <<running, loc>>

Removed(h, name) ==
    [Called(h, "removeContainer") EXCEPT
       !.removed = @ \cup {name}, !.removeOrder = Append(@, name)]

RemoveEncoder ==
    /\ pc = "remove_encoder"
    /\ \/ /\ running' = RemoveContainer(running, loc.coders.encoder.name)
          /\ pc' = "remove_decoder"
          /\ hist' = Removed(hist, loc.coders.encoder.name)
          /\ UNCHANGED <<exc, failures, loc>>
       \/ RemoveFail
    /\ UNCHANGED <<inputs, ipv6, net, tables>>

\* RemoveDecoder that leaves the decoder alone
RemoveDecoder_Skip ==
    /\ pc = "remove_decoder"
    /\ \/ /\ RemoveIter(loc, 0)
          /\ hist' = Called(hist, "removeContainer")
          /\ UNCHANGED <<exc, failures, running>>
       \/ RemoveFail
    /\ UNCHANGED <<inputs, ipv6, net, tables>>

RemoveDecoder ==
    /\ pc = "remove_decoder"
    /\ \/ /\ running' = RemoveContainer(running, loc.coders.decoder.name)
          /\ RemoveIter(loc, 0)
          /\ hist' = Removed(hist, loc.coders.decoder.name)
          /\ UNCHANGED <<exc, failures>>
       \/ RemoveFail
    /\ UNCHANGED <<inputs, ipv6, net, tables>>

\* RemoveRecoder that walks the recoders from the last to the first
RemoveRecoder_Reverse ==
    /\ pc = "remove_recoder"
    /\ \/ /\ running' = RemoveContainer(running, PyGet(loc.coders.recoders, -1 - loc.i).name)
          /\ RemoveIter(loc, loc.i + 1)
          /\ hist' = Removed(hist, PyGet(loc.coders.recoders, -1 - loc.i).name)
          /\ UNCHANGED <<exc, failures>>
       \/ RemoveFail
    /\ UNCHANGED <<inputs, ipv6, net, tables>>

RemoveRecoder ==
    /\ pc = "remove_recoder"
    /\ \/ /\ running' = RemoveContainer(running, PyGet(loc.coders.recoders, loc.i).name)
          /\ RemoveIter(loc, loc.i + 1)
          /\ hist' = Removed(hist, PyGet(loc.coders.recoders, loc.i).name)
          /\ UNCHANGED <<exc, failures>>
       \/ RemoveFail
    /\ UNCHANGED <<inputs, ipv6, net, tables>>

(***************************************************************************)
(* run_multihop_nc_test: except and finally.                               *)
(***************************************************************************)
\* except Exception as e: the error is logged and the run goes on to finally
RunExceptHandler ==
    /\ pc = "run_except"
    /\ pc' = "finally_stop"
    /\ exc' = "none"
    /\ hist' = [hist EXCEPT !.caught = @ + 1]
    /\ UNCHANGED <<inputs, failures, ipv6, net, tables, running, loc>>

FinallyNetStop ==
    /\ pc = "finally_stop"
    /\ \/ /\ net' = NetStop(net)
          /\ pc' = "finally_mgr_stop"
          /\ UNCHANGED <<exc, failures>>
       \/ /\ CanFail
          /\ failures' = failures + 1
          /\ Propagate("BackendError")
          /\ UNCHANGED net
    /\ hist' = [Called(hist, "net.stop") EXCEPT !.netStopCalls = @ + 1]
    /\ UNCHANGED <<inputs, ipv6, tables, running, loc>>

\* mgr.stop(): the manager shuts down; a function keeps running until
\* remove_coders stops it
MgrStop(r) == r

FinallyMgrStop ==
    /\ pc = "finally_mgr_stop"
    /\ \/ /\ running' = MgrStop(running)
          /\ pc' = "ipv6_enable_all"
          /\ UNCHANGED <<exc, failures>>
       \/ /\ CanFail
          /\ failures' = failures + 1
          /\ Propagate("BackendError")
          /\ UNCHANGED running
    /\ hist' = [Called(hist, "mgr.stop") EXCEPT !.mgrStopCalls = @ + 1]
    /\ UNCHANGED <<inputs, ipv6, net, tables, loc>>

EnableIpv6All ==
    /\ pc = "ipv6_enable_all"
    /\ ConfigIpv6All("enable", "ipv6_enable_default")

EnableIpv6Default ==
    /\ pc = "ipv6_enable_default"
    /\ ConfigIpv6Default("enable", "done")

(***************************************************************************)
(* The run: python3 multihop_topo.py [--all_forward]                       *)
(***************************************************************************)
Init ==
    /\ harness = "run"
    /\ host_num \in HostNums
    /\ ALL_FOWARD \in BOOLEAN
    /\ coder_log_conf \in BOOLEAN
    /\ pc = "ipv6_disable_all"
    /\ exc = "none"
    /\ failures = 0
    /\ ipv6 = [all |-> 0, default |-> 0]
    /\ net = EmptyNet
    /\ tables = NoRules
    /\ running = {}
    /\ loc = EmptyLoc
    /\ hist = EmptyHist

Next ==
    \/ DisableIpv6All
    \/ DisableIpv6Default
    \/ Construct
    \/ CreateTopologyCheck
    \/ AddController
    \/ AddHostStep
    \/ AddSwitchStep
    \/ AddHostLinkStep
    \/ AddSwitchLinkStep
    \/ CreateTopologyExcept
    \/ NetStartStep
    \/ DelFlows
    \/ GetOfport
    \/ AddFlow
    \/ DisableCksumOffload
    \/ SweepVariant
    \/ DeployRelay
    \/ DeployDecoder
    \/ DeployEncoder
    \/ RunIperfTest
    \/ PrintCodersLog
    \/ RemoveEncoder
    \/ RemoveDecoder
    \/ RemoveRecoder
    \/ RunExceptHandler
    \/ FinallyNetStop
    \/ FinallyMgrStop
    \/ EnableIpv6All
    \/ EnableIpv6Default

Spec == Init /\ [][Next]_vars

(***************************************************************************)
(* The chain create_topology builds when no call fails, as one value.      *)
(***************************************************************************)
RECURSIVE Chain(_)
Chain(n) ==
    IF n = 0
      THEN [EmptyNet EXCEPT !.controllers = {"c0"}]
      ELSE LET hop == AddLinkNamedIfce(AddSwitch(AddDockerHost(Chain(n - 1), n), n),
                                       n, "h", n)
           IN  IF n > 1 THEN AddSwitchLink(hop, n, n - 1) ELSE hop

HostList(n) == [j \in 1..n |-> j]

(***************************************************************************)
(* add_ovs_flows called repeatedly on a started chain whose switches hold  *)
(* arbitrary rules.                                                        *)
(***************************************************************************)
MaxFlowCalls == 2

PriorRules ==
    {[in_port |-> 1, out_port |-> 9], [in_port |-> 9, out_port |-> 1]}

AddOvsFlowsCall ==
    /\ pc = "flows_harness"
    /\ IF hist.flowCalls < MaxFlowCalls
         THEN /\ FlowsIter(loc, 0)
              /\ hist' = [hist EXCEPT
                            !.flowCalls = @ + 1,
                            !.after1 = IF hist.flowCalls = 1 THEN tables ELSE @,
                            !.installed = NoRules]
         ELSE pc' = "done" /\ UNCHANGED <<loc, hist>>
    /\ UNCHANGED <<inputs, exc, failures, ipv6, net, tables, running>>

InitFlows ==
    /\ harness = "flows"
    /\ host_num \in MinHosts..MaxHostNum
    /\ ALL_FOWARD = FALSE
    /\ coder_log_conf = FALSE
    /\ pc = "flows_harness"
    /\ exc = "none"
    /\ failures = 0
    /\ ipv6 = [all |-> 1, default |-> 1]
    /\ net = NetStart(Chain(host_num))
    /\ \E prior \in SUBSET PriorRules : tables = [s \in Switches |-> prior]
    /\ running = {}
    /\ loc = EmptyLoc
    /\ hist = EmptyHist

NextFlows ==
    \/ AddOvsFlowsCall
    \/ DelFlows
    \/ GetOfport
    \/ AddFlow

SpecFlows == InitFlows /\ [][NextFlows]_vars

(***************************************************************************)
(* deploy_coders followed immediately by remove_coders on its result.      *)
(***************************************************************************)
RecStIdxs == (RecStIdx - 1)..(RecStIdx + 1)

Roles == {"forward", "recode"}

DeployCodersCall ==
    /\ pc = "coders_harness"
    /\ hist' = NewVariant(hist, loc.action_map)
    /\ EnterDeployCoders(loc)
    /\ UNCHANGED <<inputs, failures, ipv6, net, tables, running>>

InitCoders ==
    /\ harness = "coders"
    /\ host_num \in MinHosts..MaxHostNum
    /\ ALL_FOWARD = FALSE
    /\ coder_log_conf = FALSE
    /\ pc = "coders_harness"
    /\ exc = "none"
    /\ failures = 0
    /\ ipv6 = [all |-> 1, default |-> 1]
    /\ net = NetStart(Chain(host_num))
    /\ tables = NoRules
    /\ running = {}
    /\ \E st \in RecStIdxs, n \in 0..(host_num - 4) :
         \E am \in [1..n -> Roles] :
            loc = [EmptyLoc EXCEPT
                     !.hosts = [none |-> FALSE, list |-> HostList(host_num)],
                     !.rec_st_idx = st, !.relay_num = n, !.action_map = am]
    /\ hist = EmptyHist

NextCoders ==
    \/ DeployCodersCall
    \/ DeployRelay
    \/ DeployDecoder
    \/ DeployEncoder
    \/ RemoveEncoder
    \/ RemoveDecoder
    \/ RemoveRecoder

SpecCoders == InitCoders /\ [][NextCoders]_vars

(***************************************************************************)
(* deploy_coders then remove_coders where one function process ends by     *)
(* itself before remove_coders reaches it.                                 *)
(***************************************************************************)
FunctionStops ==
    /\ harness = "coders"
    /\ pc \in {"remove_encoder", "remove_decoder", "remove_recoder"}
    /\ hist.stoppedEarly = {}
    /\ \E c \in running :
          /\ running' = running \ {c}
          /\ hist' = [hist EXCEPT !.stoppedEarly = {c.name}]
    /\ UNCHANGED <<inputs, pc, exc, failures, ipv6, net, tables, loc>>

NextTeardown ==
    \/ NextCoders
    \/ FunctionStops

SpecTeardown == InitCoders /\ [][NextTeardown]_vars

(***************************************************************************)
(* Properties of the run.                                                  *)
(***************************************************************************)
RunEnded == harness = "run" /\ pc = "done"

\* C1: in every run that disabled IPv6, config_ipv6("enable") has been
\* executed by the time the run ends, whatever the exit path (normal end,
\* host_num < 5, a failure during teardown).
C1_Ipv6ReEnabled ==
    (RunEnded /\ hist.ipv6Disabled) => hist.enableCalls >= 1

FlowOrDeployCalls ==
    {"net.start", "del-flows", "add-flow", "ethtool", "deploy_coders"}

\* C2: once a backend call has failed during topology assembly, no
\* net.start, flow-programming, checksum-offload or deploy_coders call
\* follows, and the run ends with net.stop() invoked exactly once.
C2_AssemblyFailureStopsOnce ==
    hist.topoFailed =>
        /\ hist.afterFail \cap FlowOrDeployCalls = {}
        /\ hist.netStopCalls <= 1
        /\ RunEnded => hist.netStopCalls = 1

\* C3: a backend failure during create_topology is reported to the caller
\* as an error: after the except clause the run holds an exception, it
\* never continues with a value returned by create_topology.
C3_FailureReRaised ==
    hist.topoFailed =>
        \/ pc = "topo_except"
        \/ pc = "done" /\ exc # "none" /\ hist.netStopCalls >= 1

\* C4: for host_num < 5 the configuration error is raised before any
\* backend call: nothing has been issued and the backend state is as it
\* was before the run.
C4_NoBackendCallBeforeConfigError ==
    (host_num < MinHosts /\ exc = "RuntimeError") =>
        /\ hist.calls = {}
        /\ ipv6 = [all |-> 0, default |-> 0]
        /\ net = EmptyNet

(***************************************************************************)
(* The chain topology.                                                     *)
(***************************************************************************)
HostLinks(n) == {j \in 1..Len(n.links) : n.links[j][2] = "h"}

SwitchLinks(n) == {j \in 1..Len(n.links) : n.links[j][2] = "s"}

TopologyBuilt == harness = "run" /\ ~loc.hosts.none

\* C5: when create_topology returns its hosts (host_num >= 5, no failure)
\* there are exactly host_num hosts, host_num switches, host_num
\* host-switch links, host i on switch i only, and host_num - 1
\* switch-switch links, exactly one between switch i and switch i-1: a
\* single chain.
C5_ChainTopology ==
    TopologyBuilt =>
        /\ host_num >= MinHosts
        /\ loc.hosts.list = HostList(host_num)
        /\ net.hosts = 1..host_num
        /\ net.switches = 1..host_num
        /\ Cardinality(HostLinks(net)) = host_num
        /\ \A i \in 1..host_num :
              Cardinality({j \in HostLinks(net) :
                             net.links[j] = <<i, "h", i>>}) = 1
        /\ Cardinality(SwitchLinks(net)) = host_num - 1
        /\ \A i \in 2..host_num :
              Cardinality({j \in SwitchLinks(net) :
                             net.links[j] = <<i, "s", i - 1>>}) = 1

C5_Witness ==
    TopologyBuilt /\ pc = "net_start" /\ host_num > MinHosts /\ failures = 0

(***************************************************************************)
(* The rules add_ovs_flows installs.                                       *)
(***************************************************************************)
Rule(in_ifce, out_ifce) ==
    [in_port |-> get_ofport(net, in_ifce), out_port |-> get_ofport(net, out_ifce)]

\* switch s, host port -> port towards switch s+1
HostToUpstream(s) == Rule(IfceName(s, "h", s), IfceName(s, "s", s + 1))

\* switch s, port towards switch s-1 -> host port
DownstreamToHost(s) == Rule(IfceName(s, "s", s - 1), IfceName(s, "h", s))

ExpectedRules(s) ==
    IF s = 1 THEN {HostToUpstream(s)}
             ELSE {HostToUpstream(s), DownstreamToHost(s)}

\* add_ovs_flows(net, host_num) has returned in the run
FlowsInstalled == harness = "run" /\ pc = "cksum" /\ loc.i = 0

\* C6, as claimed: after add_ovs_flows every one of the host_num switches
\* holds 1 installed rule (the first) or 2 installed rules (the others).
C6_RuleCountEverySwitch ==
    FlowsInstalled =>
        \A s \in 1..host_num :
            Cardinality(hist.installed[s]) = IF s = 1 THEN 1 ELSE 2

\* C6, amended: after add_ovs_flows the switches 1 .. host_num-1 hold
\* exactly the rule host port -> upstream port (1 rule on the first
\* switch) plus, beyond the first switch, downstream port -> host port (2
\* rules); on the last switch no rule is installed.
C6_RuleCountButLast ==
    FlowsInstalled =>
        /\ \A s \in 1..(host_num - 1) :
              /\ hist.installed[s] = ExpectedRules(s)
              /\ tables[s] = ExpectedRules(s)
              /\ Cardinality(hist.installed[s]) = IF s = 1 THEN 1 ELSE 2
        /\ hist.installed[host_num] = {}

C6_Witness ==
    FlowsInstalled /\ host_num > MinHosts /\ tables[host_num - 1] # {}

\* C7: two consecutive add_ovs_flows calls leave every switch with the
\* rule set one call leaves, whatever the tables held before, and a switch
\* that gets rules holds nothing but the rules of the last call (its table
\* was flushed first).
C7_FlowsIdempotent ==
    (harness = "flows" /\ pc = "done" /\ exc = "none") =>
        /\ tables = hist.after1
        /\ \A s \in 1..(host_num - 1) :
              tables[s] = hist.installed[s] /\ tables[s] = ExpectedRules(s)

C7_Witness ==
    /\ harness = "flows" /\ pc = "done" /\ exc = "none"
    /\ hist.flowCalls >= 2
    /\ Cardinality(tables[host_num]) = 2

(***************************************************************************)
(* The sweep.                                                              *)
(***************************************************************************)
RecodeAt(n, k) == [j \in 1..n |-> IF j = k THEN "recode" ELSE "forward"]

\* C8: without --all_forward and without failure the sweep runs
\* host_num - 4 variants, k = 0, 1, ... in this order, and the map given to
\* deploy_coders in variant k has host_num - 4 entries, "recode" at
\* position k and "forward" elsewhere.
C8_SweepVariants ==
    (harness = "run" /\ ~ALL_FOWARD /\ failures = 0) =>
        /\ \A k \in 1..Len(hist.variants) :
              hist.variants[k] = RecodeAt(host_num - 4, k)
        /\ (pc = "done" /\ host_num >= MinHosts) =>
              /\ Len(hist.variants) = host_num - 4
              /\ hist.measured = host_num - 4

C8_Witness ==
    /\ RunEnded /\ ~ALL_FOWARD /\ failures = 0 /\ host_num = MinHosts + 2
    /\ hist.variants = <<RecodeAt(3, 1), RecodeAt(3, 2), RecodeAt(3, 3)>>

\* C9: with --all_forward and without failure exactly one variant is
\* deployed and measured, its map is "forward" at each of the host_num - 4
\* positions, and no relay is launched with "recode" at any time.
C9_AllForwardOneVariant ==
    (harness = "run" /\ ALL_FOWARD /\ failures = 0) =>
        /\ \A c \in hist.everLaunched : c.role # "recode"
        /\ Len(hist.variants) <= 1
        /\ \A k \in 1..Len(hist.variants) :
              hist.variants[k] = Forwards(host_num - 4)
        /\ (pc = "done" /\ host_num >= MinHosts) =>
              Len(hist.variants) = 1 /\ hist.measured = 1

C9_Witness ==
    /\ RunEnded /\ ALL_FOWARD /\ failures = 0 /\ host_num > MinHosts + 1
    /\ Cardinality({c \in hist.everLaunched : c.role = "forward"}) = host_num - 4

(***************************************************************************)
(* deploy_coders then remove_coders.                                       *)
(***************************************************************************)
CoderNames(l) ==
    {<<"encoder", 0>>, <<"decoder", 0>>}
        \cup {<<"recoder_on_h", i + 1>> : i \in l.rec_st_idx..(l.rec_st_idx + l.relay_num - 1)}

\* C10: for every relay count 0 .. host_num - 4, remove_coders right after
\* a successful deploy_coders leaves no container running, and the
\* containers removed are the containers added: the encoder, the decoder
\* and every relay.
C10_DeployThenRemove ==
    (harness = "coders" /\ pc = "done" /\ exc = "none") =>
        /\ running = {}
        /\ hist.removed = hist.added
        /\ hist.added = CoderNames(loc)
        /\ Cardinality(hist.added) = loc.relay_num + 2

C10_Witness ==
    /\ harness = "coders" /\ pc = "done" /\ exc = "none"
    /\ loc.relay_num = host_num - 4 /\ host_num > MinHosts
    /\ Cardinality(hist.removed) = loc.relay_num + 2

(***************************************************************************)
(* Cleanup and failures of the run.                                        *)
(***************************************************************************)
\* C11: a run that brought the network up ends with net.stop() called and
\* with no function of the current variant left running, whatever failed:
\* a container added before a failure of deploy_coders, of the measurement
\* or of the log collection has been removed when the run ends.
C11_FunctionsRemovedOnExit ==
    (RunEnded /\ hist.netUp) =>
        /\ hist.netStopCalls >= 1
        /\ running = {}

CleanupPcs ==
    {"run_except", "finally_stop", "finally_mgr_stop", "ipv6_enable_all",
     "ipv6_enable_default", "done"}

\* C12: once a del-flows, get_ofport or add-flow command of add_ovs_flows
\* has failed, the run is in its cleanup phase: no container is ever added
\* and no measurement started, whatever rules the switches already hold.
C12_FlowFailureFatal ==
    (harness = "run" /\ hist.flowFailed) =>
        /\ pc \in CleanupPcs
        /\ hist.calls \cap {"ethtool", "deploy_coders", "addContainer",
                            "iperf_server", "iperf_client"} = {}
        /\ running = {}
        /\ hist.measured = 0

C12_Witness ==
    /\ RunEnded /\ hist.flowFailed /\ ~hist.topoFailed
    /\ tables[1] # {} /\ tables[2] # {}
    /\ hist.netStopCalls = 1

(***************************************************************************)
(* Where the installed rules send a UDP packet.                            *)
(***************************************************************************)
\* the rules of switch s that match a packet arriving on port p
Matching(s, p) == {r \in tables[s] : r.in_port = p}

\* the node at the other end of port p of switch s: <<"h", b>> or <<"s", b>>
PeerOf(s, p) ==
    LET x == CHOOSE y \in PortsOf(net, s) : y.ofport = p
    IN  <<x.name[2], x.name[3]>>

PortTo(s, kind, b) == get_ofport(net, IfceName(s, kind, b))

\* The hosts a packet reaches, in order, when it arrives at switch s on port
\* p and only installed rules move it; a host strictly inside the chain
\* sends what it receives back to its switch.  "at" is where the rules stop.
RECURSIVE Path(_, _, _, _)
Path(s, p, seen, fuel) ==
    IF fuel = 0 \/ Cardinality(Matching(s, p)) # 1
           \/ ~(\E y \in PortsOf(net, s) :
                   y.ofport = (CHOOSE r \in Matching(s, p) : TRUE).out_port)
      THEN [hosts |-> seen, at |-> <<s, p>>]
      ELSE LET out  == (CHOOSE r \in Matching(s, p) : TRUE).out_port
               peer == PeerOf(s, out)
           IN  IF peer[1] = "s"
                 THEN Path(peer[2], PortTo(peer[2], "s", s), seen, fuel - 1)
                 ELSE IF 1 < peer[2] /\ peer[2] < host_num
                        THEN Path(peer[2], PortTo(peer[2], "h", peer[2]),
                                  Append(seen, peer[2]), fuel - 1)
                        ELSE [hosts |-> Append(seen, peer[2]), at |-> <<s, out>>]

\* a packet sent by the first host
FromFirst == Path(1, PortTo(1, "h", 1), <<>>, 4 * host_num)

\* a packet sent by the last host
FromLast == Path(host_num, PortTo(host_num, "h", host_num), <<>>, 4 * host_num)

\* C13, as claimed: the installed rules alone carry a packet of the first
\* host through every intermediate host in hop order to the last host, and
\* a packet of the last host back through the chain in reverse order.
C13_PathBothDirections ==
    FlowsInstalled =>
        /\ FromFirst.hosts = [j \in 1..(host_num - 1) |-> j + 1]
        /\ FromLast.hosts = [j \in 1..(host_num - 1) |-> host_num - j]

\* C13, amended: the installed rules alone carry a packet of the first host
\* through the hosts 2 .. host_num-1 in hop order, each switch before the
\* last having exactly one rule for the port the packet arrives on, and
\* hand it to the last switch, which holds no installed rule; no installed
\* rule matches a packet that travels in the reverse direction.
C13_ForwardPathToLastSwitch ==
    FlowsInstalled =>
        /\ FromFirst.hosts = [j \in 1..(host_num - 2) |-> j + 1]
        /\ FromFirst.at = <<host_num, PortTo(host_num, "s", host_num - 1)>>
        /\ hist.installed[host_num] = {}
        /\ \A sw \in 1..(host_num - 1) :
              /\ Cardinality(Matching(sw, PortTo(sw, "h", sw))) = 1
              /\ sw > 1 => Cardinality(Matching(sw, PortTo(sw, "s", sw - 1))) = 1
              /\ Matching(sw, PortTo(sw, "s", sw + 1)) = {}
        /\ FromLast.hosts = <<>>
        /\ FromLast.at = <<host_num, PortTo(host_num, "h", host_num)>>

C13_Witness ==
    FlowsInstalled /\ host_num > MinHosts /\ Len(FromFirst.hosts) = host_num - 2

(***************************************************************************)
(* Placement and order of the coders.                                      *)
(***************************************************************************)
\* C14: whatever rec_st_idx, relay_num and action_map, the j-th relay runs
\* on hosts[rec_st_idx + j] with the role action_map[j], and no position
\* outside the map is read.
C14_RelayRoleFromItsPosition ==
    harness = "coders" =>
        /\ exc # "IndexError"
        /\ \A j \in 1..Len(loc.recoders) :
              /\ loc.recoders[j].host = loc.hosts.list[loc.rec_st_idx + j]
              /\ loc.recoders[j].role = loc.action_map[j]

\* C15: at every moment of a run no host runs two functions and no
\* container is added under a name or on a host that is still in use, and
\* nothing runs when the next variant is about to be deployed.
C15_NoOverlapBetweenVariants ==
    harness = "run" =>
        /\ ~hist.clash
        /\ \A c, d \in running : (c.host = d.host \/ c.name = d.name) => c = d
        /\ pc = "sweep" => running = {}
        /\ (pc = "deploy_relay" /\ hist.added = {}) => running = {}

C15_Witness ==
    /\ harness = "run" /\ pc = "sweep" /\ Len(hist.variants) >= 2
    /\ Cardinality(hist.removed) = host_num - 2

IsPrefix(a, b) == Len(a) <= Len(b) /\ \A j \in 1..Len(a) : a[j] = b[j]

StartOrder(l) ==
    [j \in 1..(l.relay_num + 2) |->
        IF j <= l.relay_num THEN <<"recoder_on_h", l.rec_st_idx + j>>
        ELSE IF j = l.relay_num + 1 THEN <<"decoder", 0>> ELSE <<"encoder", 0>>]

\* C16: within one deploy_coders call the containers are started in the
\* order relay, relay, ... (increasing host index), decoder, encoder; the
\* encoder is started only when every relay and the decoder have been.
C16_StartOrder ==
    harness = "coders" =>
        /\ IsPrefix(hist.addOrder, StartOrder(loc))
        /\ \A j, k \in 1..Len(loc.recoders) :
              j < k => loc.recoders[j].host < loc.recoders[k].host
        /\ <<"encoder", 0>> \in hist.added =>
              Cardinality(hist.added) = loc.relay_num + 2

C16_Witness ==
    /\ harness = "coders" /\ pc = "remove_encoder"
    /\ loc.relay_num >= 2 /\ hist.addOrder = StartOrder(loc)

(***************************************************************************)
(* The controller state machine of a run.                                  *)
(***************************************************************************)
DeployPcs == {"deploy_relay", "deploy_decoder", "deploy_encoder"}
IperfPcs  == {"iperf_server", "iperf_client", "iperf_report"}
LogPcs    == {"log_recoders", "log_decoder", "log_encoder"}
RemovePcs == {"remove_encoder", "remove_decoder", "remove_recoder"}
VariantPcs == DeployPcs \cup IperfPcs \cup LogPcs \cup RemovePcs

\* C17: topology build, network start and flow installation happen once and
\* before the first function is started; each variant does deploy,
\* measurement, log collection and teardown in that order; the network is
\* stopped after the last variant.  No measurement starts before the deploy
\* of its variant is complete and no function before the rules are installed.
C17_ControllerOrder ==
    harness = "run" =>
        /\ hist.netStartCalls <= 1
        /\ (pc \in VariantPcs \cup {"sweep"} \/ "addContainer" \in hist.calls) =>
              /\ TopologyBuilt
              /\ hist.netStartCalls = 1
              /\ \A s \in 1..(host_num - 1) : tables[s] = ExpectedRules(s)
              /\ "ethtool" \in hist.calls
        /\ pc \in VariantPcs \cup {"sweep"} =>
              hist.netStopCalls = 0 /\ hist.mgrStopCalls = 0
        /\ pc = "sweep" =>
              /\ hist.measured = Len(hist.variants)
              /\ coder_log_conf => hist.logged = Len(hist.variants)
              /\ Len(hist.variants) > 0 => hist.removed = hist.added
        /\ pc \in DeployPcs =>
              /\ hist.measured = Len(hist.variants) - 1
              /\ hist.removed = {}
        /\ pc \in IperfPcs =>
              /\ Cardinality(hist.added) = loc.relay_num + 2
              /\ running = {loc.coders.encoder, loc.coders.decoder}
                              \cup {loc.coders.recoders[j] : j \in 1..loc.relay_num}
              /\ hist.measured \in {Len(hist.variants) - 1, Len(hist.variants)}
              /\ hist.measured = Len(hist.variants) => pc = "iperf_report"
              /\ hist.logged = IF coder_log_conf THEN Len(hist.variants) - 1 ELSE 0
              /\ hist.removed = {}
        /\ pc \in LogPcs =>
              /\ hist.measured = Len(hist.variants)
              /\ hist.logged = Len(hist.variants) - 1
              /\ hist.removed = {}
        /\ pc \in RemovePcs =>
              /\ hist.measured = Len(hist.variants)
              /\ hist.logged = IF coder_log_conf THEN Len(hist.variants) ELSE 0

C17_Witness ==
    /\ RunEnded /\ failures = 0 /\ coder_log_conf
    /\ Len(hist.variants) >= 2
    /\ hist.measured = Len(hist.variants) /\ hist.logged = Len(hist.variants)
    /\ hist.netStopCalls = 1

\* C18: in every deployed variant of a run there is exactly one encoder, on
\* the second host, exactly one decoder, on the second-to-last host, exactly
\* one relay on each host strictly between them, and no function on the
\* first and the last host.
C18_OneFunctionPerInteriorHop ==
    (harness = "run" /\ pc \in IperfPcs \cup LogPcs \cup {"remove_encoder"}) =>
        /\ \A h \in 1..host_num :
              LET on == {c \in running : c.host = h}
              IN  CASE h = 1 \/ h = host_num -> on = {}
                    [] h = 2 ->
                         Cardinality(on) = 1 /\ \A c \in on : c.role = "encoder"
                    [] h = host_num - 1 ->
                         Cardinality(on) = 1 /\ \A c \in on : c.role = "decoder"
                    [] OTHER ->
                         Cardinality(on) = 1 /\ \A c \in on : c.role \in Roles
        /\ Cardinality({c \in running : c.role = "encoder"}) = 1
        /\ Cardinality({c \in running : c.role = "decoder"}) = 1
        /\ Cardinality({c \in running : c.role \in Roles}) = host_num - 4

C18_Witness ==
    /\ harness = "run" /\ pc = "iperf_client" /\ host_num = MaxHostNum
    /\ Cardinality(running) = host_num - 2
    /\ \E c \in running : c.role = "recode" /\ c.host = host_num - 2

(***************************************************************************)
(* Teardown of a function set.                                             *)
(***************************************************************************)
StopOrder(l) ==
    <<l.coders.encoder.name, l.coders.decoder.name>>
        \o [j \in 1..Len(l.coders.recoders) |-> l.coders.recoders[j].name]

C20_NetStoppedOnce ==
    harness = "run" => hist.netStopCalls <= 1 /\ ~hist.startAfterStop

====
